---- MODULE Spec2Model ----
(***************************************************************************)
(* The JACK bridge of the DISTRHO Plugin Framework                         *)
(* (distrho/src/DistrhoPluginJACK.cpp, class PluginJack): the audio        *)
(* thread's process cycle (jackProcess) and the UI thread's callbacks      *)
(* (idleCallback, setParameterValue, sendNote), as two interleaved         *)
(* processes over the state they share.                                    *)
(*                                                                         *)
(* The notes channel (SmallStackRingBuffer, ../extra/RingBuffer.hpp) is    *)
(* not part of the sources at hand; it is modelled from its description:   *)
(* a fixed byte arena with a read cursor, a published write cursor and a   *)
(* staged write cursor that commitWrite publishes.                         *)
(***************************************************************************)
EXTENDS Integers, Sequences, FiniteSets, TLC

\* ------------------------------------------------------------------ bounds
\* Bytes of the notes channel's arena.
RingSize == 7
\* sendNote calls the UI makes in a run.
MaxNotes == 3
\* Slots of jackProcess's midiEvents array: 512 in the source, scaled down
\* so that the cap is reached.
MidiEventCap == 2
\* Events in the host's MIDI input buffer of one cycle.
MaxHostEvents == 3

\* writeMidi calls the DSP core makes in a run.
MaxWriteCalls == 3

\* ------------------------------------------------------- program constants
NoteOnStatus == 144
NoteOffStatus == 128
StatusControlChange == 176
StatusProgramChange == 192
\* sendNote always writes records of this many bytes.
NoteRecordSize == 3
\* MidiEvent::kDataSize, the inline payload of a MidiEvent
kDataSize == 4
\* Parameter values are kept as multiples of 1/127, so that the scaling of
\* a 0..127 controller value is exact.
ValueUnit == 127
\* fProgramChanged when no program change is pending
NoProgram == -1

VARIABLES
    \* notes channel (fNotesRingBuffer)
    buf, head, tail, wrtn,
    \* UI thread
    uiPc, uiData, uiCopied, uiWriteOk,
    \* audio thread (locals of jackProcess)
    audioPc, midiEvents, hostBuf, eventCount, hostIdx,
    \* locals of idleCallback: the parameter index of its loop, and whether
    \* its store to fParametersChanged[uiIdx] has not reached memory yet
    uiIdx, flagStore,
    \* the DSP core (fPlugin): parameter values and selected program
    dspValue, dspProgram,
    \* the change tracker and the pending program change
    fParametersChanged, fProgramChanged, fLastOutputValues,
    \* the UI (fUI): the value last given to parameterChanged per parameter,
    \* the index last given to programLoaded
    uiShown, uiProgram,
    \* audio thread: the parameter or program whose second store is pending
    audioMark,
    \* history of the channel: records accepted by a write, records read,
    \* number of sendNote calls so far, number of writes that failed, and
    \* the place among the written records of the first note that the last
    \* drain to stop at the cap left in the channel (0: none)
    written, readLog, sent, rejected, leftBehind,
    \* history of the parameters: the arguments of the UI's last
    \* setParameterValue call, the notifications of the last idle callback,
    \* the dirty flags when it began, and whether a parameter, a flag or a
    \* program was written by the audio thread or set by the UI since it began;
    \* the value the idle callback last read of each output parameter (-1
    \* before it read one)
    uiRequest, idleEmits, flagAtBegin, disturbed, valueRead,
    \* the transport: this cycle's snapshot (jack_position_t pos, a local of
    \* jackProcess), the bridge's fTimePosition, and the time position the
    \* DSP core was given by setTimePosition
    pos, fTimePosition, dspTimePosition,
    \* the MIDI output buffer of the cycle, or "null"; the events in the
    \* buffer of the MIDI output port; what each writeMidi call so far returned
    fPortMidiOutBuffer, midiOut, writeLog,
    \* history of the cycle: the steps it has completed so far, and the number
    \* of records written to the channel when it began
    steps, writtenAtBegin,
    \* the life of the bridge: where the main thread is, the client handle,
    \* the close signal flag, the threads that called fUI.quit, and whether the
    \* build has a UI
    mainPc, fClient, gCloseSignalReceived, uiQuit, hasUI

ringVars == <<buf, head, tail, wrtn>>
noteVars == <<uiData, uiCopied, uiWriteOk>>
idleVars == <<uiIdx, flagStore>>
dspVars == <<dspValue, dspProgram>>
trackVars == <<fParametersChanged, fProgramChanged, fLastOutputValues>>
shownVars == <<uiShown, uiProgram>>
audioVars == <<audioPc, midiEvents, hostBuf, eventCount, hostIdx, audioMark>>
histVars == <<written, readLog, sent, rejected, leftBehind>>
ghostVars == <<uiRequest, idleEmits, flagAtBegin, disturbed, valueRead>>
lifeVars == <<mainPc, fClient, gCloseSignalReceived, uiQuit, hasUI>>
\* what only the start and the end of a cycle, and writeMidi, write
cycleVars == <<pos, fTimePosition, dspTimePosition, fPortMidiOutBuffer, writtenAtBegin,
               midiOut, writeLog>>
\* what the UI thread leaves alone of the audio thread's
audioSide == <<audioVars, cycleVars, steps, lifeVars>>
\* what sendNote leaves alone
notNoteVars == <<idleVars, dspVars, trackVars, shownVars, audioSide, ghostVars>>
\* what the note drain and the cycle's frame leave alone
uiSide == <<uiPc, noteVars, idleVars, shownVars, uiRequest, idleEmits, flagAtBegin,
           valueRead, lifeVars>>
vars == <<ringVars, uiPc, noteVars, idleVars, dspVars, trackVars, shownVars,
          audioVars, histVars, ghostVars, cycleVars, steps, lifeVars>>

\* ----------------------------------------------------------------- helpers
Min(a, b) == IF a < b THEN a ELSE b

RECURSIVE BitOr(_, _)
\* a | b on unsigned integers
BitOr(a, b) ==
    IF a = 0 THEN b
    ELSE IF b = 0 THEN a
    ELSE (IF a % 2 = 1 \/ b % 2 = 1 THEN 1 ELSE 0) + 2 * BitOr(a \div 2, b \div 2)

IsPrefix(s, t) == Len(s) <= Len(t) /\ SubSeq(t, 1, Len(s)) = s

\* ----------------------------------------------------------- notes channel
\* bytes published to the reader and not yet read
RingReadable == head - tail
\* bytes free for the writer (staged bytes count as used)
RingWritable == RingSize - (wrtn - tail)
RingByte(cursor) == buf[cursor % RingSize]
\* the published, unread bytes, oldest first
RingContents == [k \in 1..RingReadable |-> RingByte(tail + k - 1)]
\* isDataAvailableForReading
IsDataAvailableForReading == head # tail
\* readCustomData(data, size) succeeds when that many bytes are published
CanRead(size) == size <= RingReadable
ReadBytes(size) == [k \in 1..size |-> RingByte(tail + k - 1)]

\* ------------------------------------------------- the plugin (DSP core)
\* The plugin behind fPlugin: three parameters, all mapped to controller 7.
\* Parameter 0 is an output, parameter 1 an input, parameter 2 an input
\* trigger. Two programs.
Params == {0, 1, 2}
Programs == {0, 1}
ParameterCount == Cardinality(Params)
ProgramCount == Cardinality(Programs)
IsParameterOutput(i) == i = 0
IsParameterTrigger(i) == i = 2
ParameterMidiCC(i) == 7
RangeMin(i) == 0
RangeMax(i) == 10
RangeDef(i) == (IF i = 1 THEN 5 ELSE 0) * ValueUnit
Inputs == {i \in Params : ~IsParameterOutput(i)}
Outputs == {i \in Params : IsParameterOutput(i)}

\* getParameterRanges(j).getUnnormalizedValue(value/127)
UnnormalizedValue(j, value) ==
    RangeMin(j) * ValueUnit + value * (RangeMax(j) - RangeMin(j))

\* the input values program p holds
ProgramValue(p, i) == RangeDef(i) + p * ValueUnit

\* the tolerance of the approximate-equality test, in value units: less
\* than the step of a control change, more than the least step of a value
Epsilon == 2

\* d_isEqual(v1, v2): the values are less than the tolerance apart
d_isEqual(v1, v2) == (IF v1 >= v2 THEN v1 - v2 ELSE v2 - v1) < Epsilon

\* loadProgram(p) replaces the input parameters
LoadProgram(p, values) ==
    [i \in Params |-> IF IsParameterOutput(i) THEN values[i] ELSE ProgramValue(p, i)]

\* ------------------------------------------------------------ UI: sendNote
Channels == {0, 1}
Notes == {60}
Velocities == {0, 100}

\* midiData of sendNote
NoteRecord(channel, note, velocity) ==
    << BitOr(IF velocity # 0 THEN NoteOnStatus ELSE NoteOffStatus, channel),
       note, velocity >>

\* writeCustomData(data, size): the space check of the write; on success the
\* bytes are copied one by one by SendNoteCopy, on failure nothing is staged.
WriteCustomData(data, size) ==
    /\ uiData' = SubSeq(data, 1, size)
    /\ uiCopied' = 0
    /\ IF size <= RingWritable
       THEN /\ uiWriteOk' = TRUE
            /\ uiPc' = "copy"
            /\ rejected' = rejected
       ELSE /\ uiWriteOk' = FALSE
            /\ uiPc' = "commit"
            /\ rejected' = rejected + 1

\* sendNote, a 2-byte write instead of the 3-byte record
SendNoteWrite_Short(channel, note, velocity) ==
    /\ uiPc = "idle"
    /\ sent < MaxNotes
    /\ sent' = sent + 1
    /\ WriteCustomData(NoteRecord(channel, note, velocity), NoteRecordSize - 1)
    /\ UNCHANGED <<ringVars, notNoteVars, written, readLog, leftBehind>>

\* sendNote that hands the record over byte by byte: as many of its leading
\* bytes as the channel has room for are written
SendNoteWrite_Bytewise(channel, note, velocity) ==
    /\ uiPc = "idle"
    /\ sent < MaxNotes
    /\ sent' = sent + 1
    /\ WriteCustomData(NoteRecord(channel, note, velocity),
                       IF RingWritable \in 1..(NoteRecordSize - 1)
                       THEN RingWritable ELSE NoteRecordSize)
    /\ UNCHANGED <<ringVars, notNoteVars, written, readLog, leftBehind>>

\* sendNote: build midiData, writeCustomData(midiData, 3)
SendNoteWrite(channel, note, velocity) ==
    /\ uiPc = "idle"
    /\ sent < MaxNotes
    /\ sent' = sent + 1
    /\ WriteCustomData(NoteRecord(channel, note, velocity), NoteRecordSize)
    /\ UNCHANGED <<ringVars, notNoteVars, written, readLog, leftBehind>>

\* inside writeCustomData: copy one byte to the staged position; after the
\* last byte the staged write cursor advances
SendNoteCopy ==
    /\ uiPc = "copy"
    /\ buf' = [buf EXCEPT ![(wrtn + uiCopied) % RingSize] = uiData[uiCopied + 1]]
    /\ uiCopied' = uiCopied + 1
    /\ IF uiCopied' = Len(uiData)
       THEN wrtn' = wrtn + Len(uiData) /\ uiPc' = "commit"
       ELSE wrtn' = wrtn /\ uiPc' = "copy"
    /\ UNCHANGED <<head, tail, uiData, uiWriteOk, notNoteVars, histVars>>

\* sendNote that leaves out commitWrite: the record stays staged
SendNoteCommit_Forgotten ==
    /\ uiPc = "commit"
    /\ uiPc' = "idle"
    /\ written' = IF uiWriteOk THEN Append(written, uiData) ELSE written
    /\ UNCHANGED <<ringVars, noteVars, notNoteVars, readLog, sent, rejected, leftBehind>>

\* sendNote: commitWrite, called whatever the write returned
SendNoteCommit ==
    /\ uiPc = "commit"
    /\ head' = wrtn
    /\ uiPc' = "idle"
    /\ written' = IF uiWriteOk THEN Append(written, uiData) ELSE written
    /\ UNCHANGED <<buf, tail, wrtn, noteVars, notNoteVars, readLog, sent, rejected,
                   leftBehind>>

\* --------------------------------------------------- UI: setParameterValue
\* the values the UI asks for
UiValues(i) == {RangeMin(i) * ValueUnit, RangeMax(i) * ValueUnit}

\* setParameterValue that only notes the request down
SetParameterValue_Request(index, value) ==
    /\ uiPc = "idle"
    /\ uiRequest' = [index |-> index, value |-> value]
    /\ UNCHANGED <<ringVars, uiPc, noteVars, idleVars, dspVars, trackVars, shownVars,
                   audioSide, histVars, idleEmits, flagAtBegin, disturbed, valueRead>>

\* setParameterValueCallback -> setParameterValue -> fPlugin.setParameterValue
SetParameterValue(index, value) ==
    /\ uiPc = "idle"
    /\ uiRequest' = [index |-> index, value |-> value]
    /\ dspValue' = [dspValue EXCEPT ![index] = value]
    /\ disturbed' = TRUE
    /\ UNCHANGED <<ringVars, uiPc, noteVars, idleVars, dspProgram, trackVars, shownVars,
                   audioSide, histVars, idleEmits, flagAtBegin, valueRead>>

\* -------------------------------------------------------- UI: idleCallback
\* flagStore when no store of the idle callback is in flight
NoStore == -1

\* idleCallback is entered (gCloseSignalReceived is not set)
IdleBegin ==
    /\ uiPc = "idle"
    /\ uiPc' = "prog"
    /\ idleEmits' = <<>>
    /\ flagAtBegin' = fParametersChanged
    /\ disturbed' = FALSE
    /\ UNCHANGED <<ringVars, noteVars, idleVars, dspVars, trackVars, shownVars,
                   audioSide, histVars, uiRequest, valueRead>>

\* if (fProgramChanged >= 0)
IdleProgramTest ==
    /\ uiPc = "prog"
    /\ IF fProgramChanged >= 0
       THEN uiPc' = "progload" /\ uiIdx' = uiIdx
       ELSE uiPc' = "param" /\ uiIdx' = 0
    /\ UNCHANGED <<ringVars, noteVars, flagStore, dspVars, trackVars, shownVars,
                   audioSide, histVars, ghostVars>>

\* fUI.programLoaded(fProgramChanged)
IdleProgramLoaded ==
    /\ uiPc = "progload"
    /\ uiProgram' = fProgramChanged
    /\ uiPc' = "progreset"
    /\ UNCHANGED <<ringVars, noteVars, idleVars, dspVars, trackVars, uiShown,
                   audioSide, histVars, ghostVars>>

\* fProgramChanged = -1
IdleProgramReset ==
    /\ uiPc = "progreset"
    /\ fProgramChanged' = NoProgram
    /\ uiPc' = "param"
    /\ uiIdx' = 0
    /\ UNCHANGED <<ringVars, noteVars, flagStore, dspVars, fParametersChanged,
                   fLastOutputValues, shownVars, audioSide, histVars, ghostVars>>

\* fUI.parameterChanged(i, value)
ParameterChanged(i, value) ==
    /\ uiShown' = [uiShown EXCEPT ![i] = value]
    /\ idleEmits' = Append(idleEmits, <<i, value>>)

\* a parameter loop that notifies an output without updating the cache
IdleParameter_StaleCache ==
    /\ uiPc = "param"
    /\ uiIdx < ParameterCount
    /\ flagStore = NoStore
    /\ IF IsParameterOutput(uiIdx)
       THEN LET value == dspValue[uiIdx] IN
            /\ IF d_isEqual(fLastOutputValues[uiIdx], value)
               THEN UNCHANGED <<uiShown, idleEmits>>
               ELSE ParameterChanged(uiIdx, value)
            /\ valueRead' = [valueRead EXCEPT ![uiIdx] = value]
            /\ uiIdx' = uiIdx + 1
            /\ uiPc' = "param"
            /\ UNCHANGED fLastOutputValues
       ELSE /\ IF fParametersChanged[uiIdx]
               THEN uiPc' = "clear" /\ uiIdx' = uiIdx
               ELSE uiPc' = "param" /\ uiIdx' = uiIdx + 1
            /\ UNCHANGED <<fLastOutputValues, uiShown, idleEmits, valueRead>>
    /\ UNCHANGED <<ringVars, noteVars, flagStore, dspVars, fParametersChanged,
                   fProgramChanged, uiProgram, audioSide, histVars,
                   uiRequest, flagAtBegin, disturbed>>

\* one iteration of the parameter loop: an output parameter is compared
\* with the cache and notified; an input parameter has its flag tested
IdleParameter ==
    /\ uiPc = "param"
    /\ uiIdx < ParameterCount
    /\ flagStore = NoStore
    /\ IF IsParameterOutput(uiIdx)
       THEN LET value == dspValue[uiIdx] IN
            /\ IF d_isEqual(fLastOutputValues[uiIdx], value)
               THEN UNCHANGED <<fLastOutputValues, uiShown, idleEmits>>
               ELSE /\ fLastOutputValues' = [fLastOutputValues EXCEPT ![uiIdx] = value]
                    /\ ParameterChanged(uiIdx, value)
            /\ valueRead' = [valueRead EXCEPT ![uiIdx] = value]
            /\ uiIdx' = uiIdx + 1
            /\ uiPc' = "param"
       ELSE /\ IF fParametersChanged[uiIdx]
               THEN uiPc' = "clear" /\ uiIdx' = uiIdx
               ELSE uiPc' = "param" /\ uiIdx' = uiIdx + 1
            /\ UNCHANGED <<fLastOutputValues, uiShown, idleEmits, valueRead>>
    /\ UNCHANGED <<ringVars, noteVars, flagStore, dspVars, fParametersChanged,
                   fProgramChanged, uiProgram, audioSide, histVars,
                   uiRequest, flagAtBegin, disturbed>>

\* fParametersChanged[i] = false is issued. The flag is a plain bool shared
\* with the audio thread: the store may reach memory before or after the
\* load of the value that follows it.
IdleClearFlag ==
    /\ uiPc = "clear"
    /\ flagStore' = uiIdx
    /\ uiPc' = "notify"
    /\ UNCHANGED <<ringVars, noteVars, uiIdx, dspVars, trackVars, shownVars,
                   audioSide, histVars, ghostVars>>

\* the store of false reaches memory
IdleFlagStoreLands ==
    /\ flagStore # NoStore
    /\ fParametersChanged' = [fParametersChanged EXCEPT ![flagStore] = FALSE]
    /\ flagStore' = NoStore
    /\ UNCHANGED <<ringVars, uiPc, noteVars, uiIdx, dspVars, fProgramChanged,
                   fLastOutputValues, shownVars, audioSide, histVars, ghostVars>>

\* an idle callback that never tells the UI about a dirty input
IdleNotify_Silent ==
    /\ uiPc = "notify"
    /\ uiIdx' = uiIdx + 1
    /\ uiPc' = "param"
    /\ UNCHANGED <<ringVars, noteVars, flagStore, dspVars, trackVars, shownVars,
                   audioSide, histVars, ghostVars>>

\* fUI.parameterChanged(i, fPlugin.getParameterValue(i))
IdleNotify ==
    /\ uiPc = "notify"
    /\ ParameterChanged(uiIdx, dspValue[uiIdx])
    /\ uiIdx' = uiIdx + 1
    /\ uiPc' = "param"
    /\ UNCHANGED <<ringVars, noteVars, flagStore, dspVars, trackVars, uiProgram,
                   audioSide, histVars, uiRequest, flagAtBegin, disturbed, valueRead>>

\* fUI.exec_idle(), the end of the callback
IdleExec ==
    /\ uiPc = "param"
    /\ uiIdx = ParameterCount
    /\ flagStore = NoStore
    /\ uiPc' = "idle"
    /\ UNCHANGED <<ringVars, noteVars, idleVars, dspVars, trackVars, shownVars,
                   audioSide, histVars, ghostVars>>

\* ------------------------------------------------------ audio: jackProcess
\* what the host delivers: a raw note-on, a control change, a program change
HostNoteOn == [time |-> 1, size |-> 3, buffer |-> <<NoteOnStatus, 64, 90>>]
HostNoteOff == [time |-> 2, size |-> 3, buffer |-> <<NoteOffStatus, 64, 0>>]
HostControlChange(control, value) ==
    [time |-> 0, size |-> 3, buffer |-> <<StatusControlChange, control, value>>]
HostProgramChange(program) ==
    [time |-> 0, size |-> 2, buffer |-> <<StatusProgramChange, program>>]

RECURSIVE SeqsUpTo(_, _)
\* the sequences over S of length at most n
SeqsUpTo(S, n) ==
    IF n = 0 THEN {<<>>}
    ELSE LET shorter == SeqsUpTo(S, n - 1)
         IN shorter \cup {Append(s, e) : s \in {t \in shorter : Len(t) = n - 1}, e \in S}

\* updateParameterTriggers that resets every parameter
UpdateParameterTriggers_All(values) == [i \in Params |-> RangeDef(i)]

\* updateParameterTriggers: the values it leaves in the DSP core
UpdateParameterTriggers(values) ==
    [i \in Params |->
        IF IsParameterTrigger(i) /\ ~d_isEqual(RangeDef(i), values[i])
        THEN RangeDef(i)
        ELSE values[i]]

\* the transport is stopped at frame 0 and the host gives no bar, beat, tick
StoppedTransport ==
    [unique_1 |-> 1, unique_2 |-> 1, frame |-> 0, valid |-> {}, bar |-> 0, beat |-> 0,
     tick |-> 0, tick_double |-> 0, rolling |-> FALSE]

\* the snapshots jackbridge_transport_query fills in: markers that agree or
\* not, every combination of the two valid flags, two bars, a tick_double
\* that is not the tick
Positions ==
    [unique_1 : {1}, unique_2 : {1, 2}, frame : {48}, valid : SUBSET {"JackPositionBBT", "JackTickDouble"},
     bar : {1, 2}, beat : {3}, tick : {4}, tick_double : {5}, rolling : BOOLEAN]

\* a translation that takes the bar, beat and tick whatever the flags say
TranslateTimePosition_Unflagged(p, old) ==
    [playing |-> p.rolling,
     frame |-> IF p.unique_1 = p.unique_2 THEN p.frame ELSE 0,
     bbtValid |-> p.unique_1 = p.unique_2,
     bar |-> p.bar, beat |-> p.beat, tick |-> p.tick]

\* fTimePosition after the translation of snapshot p; old is fTimePosition
\* before it (fields that are not assigned keep their values)
TranslateTimePosition(p, old) ==
    IF p.unique_1 = p.unique_2
    THEN IF "JackPositionBBT" \in p.valid
         THEN [playing |-> p.rolling, frame |-> p.frame, bbtValid |-> TRUE,
               bar |-> p.bar, beat |-> p.beat,
               tick |-> IF "JackTickDouble" \in p.valid THEN p.tick_double ELSE p.tick]
         ELSE [old EXCEPT !.playing = p.rolling, !.frame = p.frame, !.bbtValid = FALSE]
    ELSE [old EXCEPT !.playing = p.rolling, !.bbtValid = FALSE, !.frame = 0]

\* the steps of a cycle, in the order of the code
CycleSteps ==
    <<"setTimePosition", "updateParameterTriggers", "clearMidiOut", "drainNotes",
      "scanHost", "run", "releaseMidiOut">>

\* jackbridge_midi_clear_buffer
MidiClearBuffer(events) == <<>>

\* a cycle's start that marks the triggers it resets as changed
BeginCycle_MarksTriggers(hostBuffers, positions) ==
    /\ audioPc = "idle"
    /\ \E p \in positions : pos' = p
    /\ fTimePosition' = TranslateTimePosition(pos', fTimePosition)
    /\ dspTimePosition' = fTimePosition'
    /\ \E h \in hostBuffers : hostBuf' = h
    /\ dspValue' = UpdateParameterTriggers(dspValue)
    /\ fParametersChanged' =
         [i \in Params |-> fParametersChanged[i] \/ dspValue'[i] # dspValue[i]]
    /\ disturbed' = (disturbed \/ dspValue' # dspValue)
    /\ fPortMidiOutBuffer' = "buffer"
    /\ midiOut' = MidiClearBuffer(midiOut)
    /\ steps' = SubSeq(CycleSteps, 1, 3)
    /\ writtenAtBegin' = Len(written)
    /\ audioPc' = "drain"
    /\ UNCHANGED <<ringVars, uiSide, dspProgram, fProgramChanged, fLastOutputValues,
                   midiEvents, eventCount, hostIdx, audioMark, histVars, writeLog>>

\* the start of a cycle: the time position is translated and given to the
\* DSP core, updateParameterTriggers, the MIDI output buffer is fetched and
\* cleared, then midiEvents is declared
BeginCycle(hostBuffers, positions) ==
    /\ audioPc = "idle"
    /\ \E p \in positions : pos' = p
    /\ fTimePosition' = TranslateTimePosition(pos', fTimePosition)
    /\ dspTimePosition' = fTimePosition'
    /\ \E h \in hostBuffers : hostBuf' = h
    /\ dspValue' = UpdateParameterTriggers(dspValue)
    /\ disturbed' = (disturbed \/ dspValue' # dspValue)
    /\ fPortMidiOutBuffer' = "buffer"
    /\ midiOut' = MidiClearBuffer(midiOut)
    /\ steps' = SubSeq(CycleSteps, 1, 3)
    /\ writtenAtBegin' = Len(written)
    /\ audioPc' = "drain"
    /\ UNCHANGED <<ringVars, uiSide, dspProgram, trackVars, midiEvents, eventCount,
                   hostIdx, audioMark, histVars, writeLog>>

\* the event the drain stores for a note record
NoteEvent(midiData) ==
    [frame |-> 0, size |-> NoteRecordSize, data |-> midiData, dataExt |-> <<>>]

\* a drain that throws away what it cannot take when it stops at the cap
DrainNote_Flush ==
    /\ audioPc = "drain"
    /\ IF IsDataAvailableForReading /\ CanRead(NoteRecordSize)
       THEN LET midiData == ReadBytes(NoteRecordSize) IN
            /\ midiEvents' = Append(midiEvents, NoteEvent(midiData))
            /\ readLog' = Append(readLog, midiData)
            /\ IF Len(midiEvents') = MidiEventCap
               THEN tail' = head /\ audioPc' = "scan"
               ELSE tail' = tail + NoteRecordSize /\ audioPc' = "drain"
            /\ UNCHANGED leftBehind
       ELSE /\ audioPc' = "scan"
            /\ UNCHANGED <<tail, midiEvents, readLog, leftBehind>>
    /\ steps' = IF audioPc' = "scan" THEN Append(steps, "drainNotes") ELSE steps
    /\ UNCHANGED <<buf, head, wrtn, uiSide, dspVars, trackVars, hostBuf, eventCount,
                   hostIdx, audioMark, written, sent, rejected, disturbed, cycleVars>>

\* a drain that waits while the UI is in the middle of a write
DrainNote_Wait ==
    /\ uiPc # "copy"
    /\ audioPc = "drain"
    /\ IF IsDataAvailableForReading /\ CanRead(NoteRecordSize)
       THEN LET midiData == ReadBytes(NoteRecordSize) IN
            /\ tail' = tail + NoteRecordSize
            /\ midiEvents' = Append(midiEvents, NoteEvent(midiData))
            /\ readLog' = Append(readLog, midiData)
            /\ audioPc' = IF Len(midiEvents') = MidiEventCap THEN "scan" ELSE "drain"
            /\ UNCHANGED leftBehind
       ELSE /\ audioPc' = "scan"
            /\ UNCHANGED <<tail, midiEvents, readLog, leftBehind>>
    /\ steps' = IF audioPc' = "scan" THEN Append(steps, "drainNotes") ELSE steps
    /\ UNCHANGED <<buf, head, wrtn, uiSide, dspVars, trackVars, hostBuf, eventCount,
                   hostIdx, audioMark, written, sent, rejected, disturbed, cycleVars>>

\* one iteration of the UI note drain
DrainNote ==
    /\ audioPc = "drain"
    /\ IF IsDataAvailableForReading /\ CanRead(NoteRecordSize)
       THEN LET midiData == ReadBytes(NoteRecordSize) IN
            /\ tail' = tail + NoteRecordSize
            /\ midiEvents' = Append(midiEvents, NoteEvent(midiData))
            /\ readLog' = Append(readLog, midiData)
            /\ IF Len(midiEvents') = MidiEventCap
               THEN /\ audioPc' = "scan"
                    /\ leftBehind' = IF head # tail' THEN Len(readLog') + 1 ELSE leftBehind
               ELSE /\ audioPc' = "drain"
                    /\ UNCHANGED leftBehind
       ELSE /\ audioPc' = "scan"
            /\ UNCHANGED <<tail, midiEvents, readLog, leftBehind>>
    /\ steps' = IF audioPc' = "scan" THEN Append(steps, "drainNotes") ELSE steps
    /\ UNCHANGED <<buf, head, wrtn, uiSide, dspVars, trackVars, hostBuf, eventCount,
                   hostIdx, audioMark, written, sent, rejected, disturbed, cycleVars>>

\* eventCount of the host scan, with the cap alone as its limit
EventCount_NoRoom(midiEventCount, hostCount) == Min(MidiEventCap, hostCount)

\* eventCount of the host scan
EventCount(midiEventCount, hostCount) ==
    Min(MidiEventCap - midiEventCount, hostCount)

\* the host scan is entered, or skipped when eventCount is 0
HostScanBegin ==
    /\ audioPc = "scan"
    /\ eventCount' = EventCount(Len(midiEvents), Len(hostBuf))
    /\ hostIdx' = 0
    /\ audioPc' = IF eventCount' = 0 THEN "run" ELSE "event"
    /\ steps' = IF audioPc' = "run" THEN Append(steps, "scanHost") ELSE steps
    /\ UNCHANGED <<ringVars, uiSide, dspVars, trackVars, midiEvents, hostBuf,
                   audioMark, histVars, disturbed, cycleVars>>

IsControlChange(jevent) == jevent.buffer[1] = StatusControlChange /\ jevent.size = 3
IsProgramChange(jevent) == jevent.buffer[1] = StatusProgramChange /\ jevent.size = 2

\* a lookup that does not skip the output parameters
MappedParameter_Outputs(control) ==
    LET hits == {j \in Params : ParameterMidiCC(j) = control}
    IN IF hits = {} THEN ParameterCount
       ELSE CHOOSE j \in hits : \A k \in hits : j <= k

\* the parameter a control change writes: the first input mapped to the
\* controller, or ParameterCount when the loop finds none
MappedParameter(control) ==
    LET hits == {j \in Params : ~IsParameterOutput(j) /\ ParameterMidiCC(j) = control}
    IN IF hits = {} THEN ParameterCount
       ELSE CHOOSE j \in hits : \A k \in hits : j <= k

\* the messages the scan interprets
IsIntercepted(jevent) ==
    \/ IsControlChange(jevent) /\ MappedParameter(jevent.buffer[2]) < ParameterCount
    \/ IsProgramChange(jevent)

\* the raw event the scan stores in midiEvents
RawEvent(jevent) ==
    [frame |-> jevent.time, size |-> jevent.size,
     data |-> IF jevent.size > kDataSize THEN <<>> ELSE jevent.buffer,
     dataExt |-> IF jevent.size > kDataSize THEN jevent.buffer ELSE <<>>]

\* a scan that keeps the interpreted messages to itself
StoreEvent_Consume(events, jevent) ==
    IF IsIntercepted(jevent) THEN events ELSE Append(events, RawEvent(jevent))

\* a scan that puts the host event in front of the events collected so far
StoreEvent_Front(events, jevent) == <<RawEvent(jevent)>> \o events

\* midiEvents[midiEventCount++] = the event, at the end of every iteration
StoreEvent(events, jevent) == Append(events, RawEvent(jevent))

\* the end of an iteration of the scan
NextIteration ==
    /\ midiEvents' = StoreEvent(midiEvents, hostBuf[hostIdx + 1])
    /\ hostIdx' = hostIdx + 1
    /\ audioPc' = IF hostIdx' = eventCount THEN "run" ELSE "event"
    /\ steps' = IF audioPc' = "run" THEN Append(steps, "scanHost") ELSE steps

\* an iteration that loads the program of a program change without the
\* range test
HostEvent_AnyProgram ==
    /\ audioPc = "event"
    /\ hostIdx < eventCount
    /\ LET jevent == hostBuf[hostIdx + 1]
           j == MappedParameter(jevent.buffer[2])
       IN
       IF IsControlChange(jevent) /\ j < ParameterCount
       THEN /\ dspValue' = [dspValue EXCEPT ![j] = UnnormalizedValue(j, jevent.buffer[3])]
            /\ disturbed' = TRUE
            /\ audioMark' = j
            /\ audioPc' = "ccmark"
            /\ UNCHANGED <<dspProgram, midiEvents, hostIdx, steps>>
       ELSE IF IsProgramChange(jevent)
       THEN /\ dspValue' = LoadProgram(jevent.buffer[2], dspValue)
            /\ dspProgram' = jevent.buffer[2]
            /\ disturbed' = TRUE
            /\ audioMark' = jevent.buffer[2]
            /\ audioPc' = "pcmark"
            /\ UNCHANGED <<midiEvents, hostIdx, steps>>
       ELSE /\ NextIteration
            /\ UNCHANGED <<dspVars, disturbed, audioMark>>
    /\ UNCHANGED <<ringVars, uiSide, trackVars, hostBuf, eventCount, histVars,
                   cycleVars>>

\* one iteration of the host scan, up to its first store to shared state
HostEvent ==
    /\ audioPc = "event"
    /\ hostIdx < eventCount
    /\ LET jevent == hostBuf[hostIdx + 1]
           j == MappedParameter(jevent.buffer[2])
       IN
       IF IsControlChange(jevent) /\ j < ParameterCount
       THEN \* fPlugin.setParameterValue(j, fvalue)
            /\ dspValue' = [dspValue EXCEPT ![j] = UnnormalizedValue(j, jevent.buffer[3])]
            /\ disturbed' = TRUE
            /\ audioMark' = j
            /\ audioPc' = "ccmark"
            /\ UNCHANGED <<dspProgram, midiEvents, hostIdx, steps>>
       ELSE IF IsProgramChange(jevent) /\ jevent.buffer[2] < ProgramCount
       THEN \* fPlugin.loadProgram(program)
            /\ dspValue' = LoadProgram(jevent.buffer[2], dspValue)
            /\ dspProgram' = jevent.buffer[2]
            /\ disturbed' = TRUE
            /\ audioMark' = jevent.buffer[2]
            /\ audioPc' = "pcmark"
            /\ UNCHANGED <<midiEvents, hostIdx, steps>>
       ELSE /\ NextIteration
            /\ UNCHANGED <<dspVars, disturbed, audioMark>>
    /\ UNCHANGED <<ringVars, uiSide, trackVars, hostBuf, eventCount, histVars,
                   cycleVars>>

\* the second store of an interpreted message: the dirty flag of the
\* parameter, or the pending program; then the end of the iteration
HostEventMark ==
    /\ audioPc \in {"ccmark", "pcmark"}
    /\ IF audioPc = "ccmark"
       THEN /\ fParametersChanged' = [fParametersChanged EXCEPT ![audioMark] = TRUE]
            /\ UNCHANGED fProgramChanged
       ELSE /\ fProgramChanged' = audioMark
            /\ UNCHANGED fParametersChanged
    /\ disturbed' = TRUE
    /\ NextIteration
    /\ UNCHANGED <<ringVars, uiSide, dspVars, fLastOutputValues, hostBuf, eventCount,
                   audioMark, histVars, cycleVars>>

\* a failed fetch that skips the event and goes on with the next one
FetchFails_Continue ==
    /\ audioPc = "event"
    /\ hostIdx < eventCount
    /\ hostIdx' = hostIdx + 1
    /\ audioPc' = IF hostIdx' = eventCount THEN "run" ELSE "event"
    /\ steps' = IF audioPc' = "run" THEN Append(steps, "scanHost") ELSE steps
    /\ UNCHANGED <<ringVars, uiSide, dspVars, trackVars, midiEvents, hostBuf,
                   eventCount, audioMark, histVars, disturbed, cycleVars>>

\* jackbridge_midi_event_get fails: the scan ends
FetchFails ==
    /\ audioPc = "event"
    /\ hostIdx < eventCount
    /\ audioPc' = "run"
    /\ steps' = Append(steps, "scanHost")
    /\ UNCHANGED <<ringVars, uiSide, dspVars, trackVars, midiEvents, hostBuf,
                   eventCount, hostIdx, audioMark, histVars, disturbed, cycleVars>>

\* a cycle's end that keeps the MIDI output buffer handle
Run_KeepsHandle(outValues) ==
    /\ audioPc = "run"
    /\ \E v \in outValues :
         dspValue' = [i \in Params |-> IF IsParameterOutput(i) THEN v ELSE dspValue[i]]
    /\ audioPc' = "idle"
    /\ midiEvents' = <<>> /\ hostBuf' = <<>>
    /\ eventCount' = 0 /\ hostIdx' = 0 /\ audioMark' = 0
    /\ pos' = StoppedTransport
    /\ writtenAtBegin' = 0
    /\ steps' = Append(steps, "run")
    /\ UNCHANGED <<ringVars, uiSide, dspProgram, trackVars, histVars, disturbed,
                   fTimePosition, dspTimePosition, fPortMidiOutBuffer, midiOut,
                   writeLog>>

\* fPlugin.run(..., midiEvents, midiEventCount): the DSP core sets its
\* output parameters; the cycle ends
Run(outValues) ==
    /\ audioPc = "run"
    /\ \E v \in outValues :
         dspValue' = [i \in Params |-> IF IsParameterOutput(i) THEN v ELSE dspValue[i]]
    /\ audioPc' = "idle"
    \* the locals of jackProcess end with it
    /\ midiEvents' = <<>> /\ hostBuf' = <<>>
    /\ eventCount' = 0 /\ hostIdx' = 0 /\ audioMark' = 0
    /\ pos' = StoppedTransport
    /\ writtenAtBegin' = 0
    \* fPortMidiOutBuffer = nullptr
    /\ fPortMidiOutBuffer' = "null"
    /\ steps' = steps \o <<"run", "releaseMidiOut">>
    /\ UNCHANGED <<ringVars, uiSide, dspProgram, trackVars, histVars, disturbed,
                   fTimePosition, dspTimePosition, midiOut, writeLog>>

\* ------------------------------------------------------ DSP core: writeMidi
\* the events the DSP core sends: a short one, and one whose payload is in
\* dataExt
MidiOutEvents ==
    { [frame |-> 0, size |-> 3, data |-> <<NoteOnStatus, 60, 100>>, dataExt |-> <<>>],
      [frame |-> 1, size |-> kDataSize + 1, data |-> <<>>,
       dataExt |-> <<240, 1, 2, 3, 247>>] }

\* what jackbridge_midi_event_write is given of a MidiEvent
WrittenEvent(midiEvent) ==
    [time |-> midiEvent.frame, size |-> midiEvent.size,
     buffer |-> IF midiEvent.size > kDataSize THEN midiEvent.dataExt ELSE midiEvent.data]

\* writeMidi without the test of fPortMidiOutBuffer
WriteMidi_Unchecked(midiEvent) ==
    /\ Len(writeLog) < MaxWriteCalls
    /\ \E ok \in BOOLEAN :
         /\ writeLog' = Append(writeLog, ok)
         /\ midiOut' = IF ok THEN Append(midiOut, WrittenEvent(midiEvent)) ELSE midiOut
    /\ UNCHANGED <<ringVars, uiSide, dspVars, trackVars, audioVars, histVars, disturbed,
                   pos, fTimePosition, dspTimePosition, fPortMidiOutBuffer,
                   writtenAtBegin, steps>>

\* writeMidiCallback -> writeMidi, called by the DSP core from whatever the
\* bridge calls of it, or outside a cycle: false when there is no buffer,
\* else whether the write succeeded
WriteMidi(midiEvent) ==
    /\ Len(writeLog) < MaxWriteCalls
    /\ IF fPortMidiOutBuffer = "null"
       THEN /\ writeLog' = Append(writeLog, FALSE)
            /\ UNCHANGED midiOut
       ELSE \E ok \in BOOLEAN :
                /\ writeLog' = Append(writeLog, ok)
                /\ midiOut' = IF ok THEN Append(midiOut, WrittenEvent(midiEvent))
                              ELSE midiOut
    /\ UNCHANGED <<ringVars, uiSide, dspVars, trackVars, audioVars, histVars, disturbed,
                   pos, fTimePosition, dspTimePosition, fPortMidiOutBuffer,
                   writtenAtBegin, steps>>

\* ------------------------------------ DSP core: requestParameterValueChange
\* requestParameterValueChangeCallback -> requestParameterValueChange, called
\* by the DSP core from run, up to its first store:
\* fPlugin.setParameterValue(index, value)
RequestParameterValueChange(index, value) ==
    /\ audioPc = "run"
    /\ index < ParameterCount
    /\ dspValue' = [dspValue EXCEPT ![index] = value]
    /\ disturbed' = TRUE
    /\ audioMark' = index
    /\ audioPc' = "reqmark"
    /\ UNCHANGED <<ringVars, uiSide, dspProgram, trackVars, midiEvents, hostBuf,
                   eventCount, hostIdx, histVars, cycleVars, steps>>

\* its second store: fParametersChanged[index] = true; it returns into run
RequestMark ==
    /\ audioPc = "reqmark"
    /\ fParametersChanged' = [fParametersChanged EXCEPT ![audioMark] = TRUE]
    /\ disturbed' = TRUE
    /\ audioPc' = "run"
    /\ UNCHANGED <<ringVars, uiSide, dspVars, fProgramChanged, fLastOutputValues,
                   midiEvents, hostBuf, eventCount, hostIdx, audioMark, histVars,
                   cycleVars, steps>>

\* ---------------------------------------------------------- specifications
\* The state the constructor leaves: program 0 loaded and shown, the inputs
\* shown, the tracker cleared.
Constructed(ui) ==
    /\ buf = [k \in 0..(RingSize - 1) |-> 0]
    /\ head = 0 /\ tail = 0 /\ wrtn = 0
    /\ uiPc = "idle" /\ uiData = <<>> /\ uiCopied = 0 /\ uiWriteOk = TRUE
    /\ uiIdx = 0 /\ flagStore = NoStore
    /\ dspProgram = 0
    /\ dspValue = LoadProgram(0, [i \in Params |-> RangeDef(i)])
    /\ fParametersChanged = [i \in Params |-> FALSE]
    /\ fProgramChanged = NoProgram
    /\ fLastOutputValues = [i \in Params |-> 0]
    /\ uiShown = [i \in Params |-> IF IsParameterOutput(i) THEN NoProgram ELSE dspValue[i]]
    /\ uiProgram = 0
    /\ audioPc = "idle" /\ midiEvents = <<>> /\ hostBuf = <<>>
    /\ eventCount = 0 /\ hostIdx = 0 /\ audioMark = 0
    /\ written = <<>> /\ readLog = <<>> /\ sent = 0 /\ rejected = 0
    /\ leftBehind = 0
    /\ uiRequest = [index |-> 0, value |-> 0]
    /\ idleEmits = <<>>
    /\ flagAtBegin = [i \in Params |-> FALSE]
    /\ disturbed = FALSE
    /\ valueRead = [i \in Params |-> NoProgram]
    /\ pos = StoppedTransport
    /\ fTimePosition = [playing |-> FALSE, frame |-> 0, bbtValid |-> FALSE,
                        bar |-> 0, beat |-> 0, tick |-> 0]
    /\ dspTimePosition = fTimePosition
    /\ fPortMidiOutBuffer = "null"
    /\ midiOut = <<>>
    /\ writeLog = <<>>
    /\ steps = <<>>
    /\ writtenAtBegin = 0
    /\ mainPc = "running"
    /\ fClient = "client"
    /\ gCloseSignalReceived = FALSE
    /\ uiQuit = {}
    /\ hasUI = ui

\* the build with a UI (DISTRHO_PLUGIN_HAS_UI)
Init == Constructed(TRUE)

SendNote == \E c \in Channels, n \in Notes, v \in Velocities : SendNoteWrite(c, n, v)

\* The notes channel: the UI sends notes while cycles drain them and scan
\* raw host events.
NotesBuffers == SeqsUpTo({HostNoteOn, HostNoteOff}, MaxHostEvents)
NotesCycle == BeginCycle(NotesBuffers, {StoppedTransport})
NotesRun == Run({0})

NextNotes ==
    \/ SendNote
    \/ SendNoteCopy
    \/ SendNoteCommit
    \/ NotesCycle
    \/ DrainNote
    \/ HostScanBegin
    \/ HostEvent
    \/ NotesRun

SpecNotes == Init /\ [][NextNotes]_vars

\* The parameters: the UI sets the trigger parameter and polls while cycles
\* apply control changes to the first mapped input.
UiSetParameter ==
    \E i \in {j \in Inputs : IsParameterTrigger(j)} : \E v \in UiValues(i) :
        SetParameterValue(i, v)
ParamsBuffers ==
    SeqsUpTo({HostControlChange(7, 64), HostControlChange(7, 127)}, MaxHostEvents)
ParamsCycle == BeginCycle(ParamsBuffers, {StoppedTransport})
ParamsRun == Run({0})

NextParams ==
    \/ UiSetParameter
    \/ IdleBegin
    \/ IdleProgramTest
    \/ IdleParameter
    \/ IdleClearFlag
    \/ IdleFlagStoreLands
    \/ IdleNotify
    \/ IdleExec
    \/ ParamsCycle
    \/ DrainNote
    \/ HostScanBegin
    \/ HostEvent
    \/ HostEventMark
    \/ ParamsRun

SpecParams == Init /\ [][NextParams]_vars

\* The programs: the UI polls while cycles apply program changes.
ProgramBuffers ==
    SeqsUpTo({HostProgramChange(0), HostProgramChange(1)}, MaxHostEvents)
ProgramCycle == BeginCycle(ProgramBuffers, {StoppedTransport})
ProgramRun == Run({0})

NextProgram ==
    \/ IdleBegin
    \/ IdleProgramTest
    \/ IdleProgramLoaded
    \/ IdleProgramReset
    \/ IdleParameter
    \/ IdleExec
    \/ ProgramCycle
    \/ DrainNote
    \/ HostScanBegin
    \/ HostEvent
    \/ HostEventMark
    \/ ProgramRun

SpecProgram == Init /\ [][NextProgram]_vars

\* The multiplexer: cycles over every kind of host event, with notes queued
\* by the UI and fetches that fail.
MidiBuffers ==
    SeqsUpTo({HostNoteOn, HostControlChange(7, 64), HostControlChange(9, 64),
              HostProgramChange(1), HostProgramChange(5)}, MaxHostEvents)
MidiCycle == BeginCycle(MidiBuffers, {StoppedTransport})
MidiRun == Run({0})
MidiSendNote == SendNoteWrite(0, 60, 100)

NextMidi ==
    \/ MidiSendNote
    \/ SendNoteCopy
    \/ SendNoteCommit
    \/ MidiCycle
    \/ DrainNote
    \/ HostScanBegin
    \/ HostEvent
    \/ HostEventMark
    \/ FetchFails
    \/ MidiRun

SpecMidi == Init /\ [][NextMidi]_vars

\* The transport: cycles over every snapshot the host can give.
TimeBuffers == {<<>>, <<HostNoteOn>>}
TimeCycle == BeginCycle(TimeBuffers, Positions)
TimeRun == Run({0})

NextTime ==
    \/ TimeCycle
    \/ DrainNote
    \/ HostScanBegin
    \/ HostEvent
    \/ TimeRun

SpecTime == Init /\ [][NextTime]_vars

\* The outputs: the UI polls while cycles apply a control change and the
\* DSP core sets its output parameter to a value near the last one or far
\* from it.
OutputValues == {0, 1, 2 * ValueUnit}
OutputsBuffers == {<<>>, <<HostControlChange(7, 64)>>}
OutputsCycle == BeginCycle(OutputsBuffers, {StoppedTransport})
OutputsRun == Run(OutputValues)

NextOutputs ==
    \/ IdleBegin
    \/ IdleProgramTest
    \/ IdleParameter
    \/ IdleClearFlag
    \/ IdleFlagStoreLands
    \/ IdleNotify
    \/ IdleExec
    \/ OutputsCycle
    \/ DrainNote
    \/ HostScanBegin
    \/ HostEvent
    \/ HostEventMark
    \/ OutputsRun

SpecOutputs == Init /\ [][NextOutputs]_vars

\* The MIDI output: the DSP core calls writeMidi inside and outside the
\* cycles.
MidiOutBuffers == {<<>>, <<HostNoteOn>>}
MidiOutCycle == BeginCycle(MidiOutBuffers, {StoppedTransport})
MidiOutRun == Run({0})
MidiOutWrite == \E midiEvent \in MidiOutEvents : WriteMidi(midiEvent)

NextMidiOut ==
    \/ MidiOutCycle
    \/ DrainNote
    \/ HostScanBegin
    \/ HostEvent
    \/ MidiOutRun
    \/ MidiOutWrite

SpecMidiOut == Init /\ [][NextMidiOut]_vars

\* The triggers: the UI sets the trigger parameter and polls, while cycles
\* reset it, apply a control change to the first input, and the DSP core
\* asks for a change of that input from run.
TriggersBuffers == {<<>>, <<HostControlChange(7, 64)>>}
TriggersCycle == BeginCycle(TriggersBuffers, {StoppedTransport})
TriggersRun == Run({0})
TriggersRequest == RequestParameterValueChange(1, RangeMax(1) * ValueUnit)

NextTriggers ==
    \/ UiSetParameter
    \/ IdleBegin
    \/ IdleProgramTest
    \/ IdleParameter
    \/ IdleClearFlag
    \/ IdleFlagStoreLands
    \/ IdleNotify
    \/ IdleExec
    \/ TriggersCycle
    \/ DrainNote
    \/ HostScanBegin
    \/ HostEvent
    \/ HostEventMark
    \/ TriggersRequest
    \/ RequestMark
    \/ TriggersRun

SpecTriggers == Init /\ [][NextTriggers]_vars

\* ------------------------------------------------------ the bridge's life
\* everything but the life of the bridge
notLifeVars == <<ringVars, uiPc, noteVars, idleVars, dspVars, trackVars, shownVars,
                 audioVars, histVars, ghostVars, cycleVars, steps>>

\* jackShutdownCallback -> jackShutdown, on the thread of the host:
\* fClient = nullptr, and fUI.quit() when the build has a UI
JackShutdown ==
    /\ mainPc = "running"
    /\ fClient = "client"
    /\ fClient' = "null"
    /\ uiQuit' = IF hasUI THEN uiQuit \cup {"host"} ELSE uiQuit
    /\ UNCHANGED <<notLifeVars, mainPc, gCloseSignalReceived, hasUI>>

\* closeSignalHandler: SIGINT or SIGTERM arrives
CloseSignal ==
    /\ mainPc = "running"
    /\ ~gCloseSignalReceived
    /\ gCloseSignalReceived' = TRUE
    /\ UNCHANGED <<notLifeVars, mainPc, fClient, uiQuit, hasUI>>

\* idleCallback when gCloseSignalReceived is set: return fUI.quit()
IdleQuit ==
    /\ hasUI
    /\ mainPc = "running"
    /\ uiPc = "idle"
    /\ gCloseSignalReceived
    /\ uiQuit = {}
    /\ uiQuit' = uiQuit \cup {"ui"}
    /\ UNCHANGED <<notLifeVars, mainPc, fClient, gCloseSignalReceived, hasUI>>

\* fUI.exec(this) returns once the UI was asked to quit; the constructor
\* ends and the object goes out of scope in main
ExecReturns ==
    /\ hasUI
    /\ mainPc = "running"
    /\ uiPc = "idle"
    /\ uiQuit # {}
    /\ mainPc' = "destructor"
    /\ UNCHANGED <<notLifeVars, fClient, gCloseSignalReceived, uiQuit, hasUI>>

\* without a UI: while (! gCloseSignalReceived) d_sleep(1) ends
WaitLoopEnds ==
    /\ ~hasUI
    /\ mainPc = "running"
    /\ gCloseSignalReceived
    /\ mainPc' = "destructor"
    /\ UNCHANGED <<notLifeVars, fClient, gCloseSignalReceived, uiQuit, hasUI>>

\* ~PluginJack: the client is deactivated when there still is one (which
\* waits for the cycle in progress), the tracker is freed, the DSP core is
\* deactivated, the ports and the client are closed
Destructor ==
    /\ mainPc = "destructor"
    /\ fClient = "client" => audioPc = "idle"
    /\ mainPc' = "deactivated"
    /\ UNCHANGED <<notLifeVars, fClient, gCloseSignalReceived, uiQuit, hasUI>>

\* The life of the bridge, in either build: cycles and idle callbacks until
\* the host shuts down or a signal arrives.
LifeBuffers == {<<>>, <<HostControlChange(7, 64)>>}
LifeCycle ==
    /\ mainPc = "running"
    /\ fClient = "client"
    /\ BeginCycle(LifeBuffers, {StoppedTransport})
LifeRun == Run({0})

\* an idle callback that does not poll gCloseSignalReceived
LifeIdleBegin_NoPoll ==
    /\ hasUI
    /\ mainPc = "running"
    /\ uiQuit = {}
    /\ IdleBegin

\* the loop of fUI.exec calls idleCallback until the UI was asked to quit
LifeIdleBegin ==
    /\ hasUI
    /\ mainPc = "running"
    /\ uiQuit = {}
    /\ ~gCloseSignalReceived
    /\ IdleBegin

\* the steps that end a callback of the UI thread once it was entered
UiThread ==
    \/ IdleProgramTest
    \/ IdleParameter
    \/ IdleClearFlag
    \/ IdleFlagStoreLands
    \/ IdleNotify
    \/ IdleExec

\* the steps that end a cycle once it has begun
AudioThread ==
    \/ DrainNote
    \/ HostScanBegin
    \/ HostEvent
    \/ HostEventMark
    \/ LifeRun

\* the main thread: the end of the constructor's loop, and the destructor
MainThread ==
    \/ IdleQuit
    \/ ExecReturns
    \/ WaitLoopEnds
    \/ Destructor

InitLife == \E ui \in BOOLEAN : Constructed(ui)

NextLife ==
    \/ JackShutdown
    \/ CloseSignal
    \/ LifeCycle
    \/ LifeIdleBegin
    \/ UiThread
    \/ AudioThread
    \/ MainThread

SpecLife == InitLife /\ [][NextLife]_vars

\* The threads are scheduled: a callback that was entered goes on to its
\* end, and the main thread goes on when it can. Nothing makes the host
\* shut down, a signal arrive, a cycle or an idle callback begin.
FairLife ==
    /\ SpecLife
    /\ WF_vars(UiThread)
    /\ WF_vars(AudioThread)
    /\ WF_vars(MainThread)

\* ------------------------------------------------------------------ claims
\* the byte sequence s cut into note records
Records(s) ==
    [k \in 1..(Len(s) \div NoteRecordSize) |->
        SubSeq(s, NoteRecordSize * (k - 1) + 1, NoteRecordSize * k)]

\* the UI notes at the head of midiEvents
NoteCount == Len(midiEvents) - hostIdx

\* C1: whatever the interleaving of sendNote with the drain, the records the
\* audio thread has read are a prefix of the records written, byte for byte
\* and in order, and the reader never passes the published write cursor.
C1_ReadsArePrefixOfWrites ==
    /\ tail <= head
    /\ IsPrefix(readLog, written)

\* C1 witness: two records were read and the drain runs while the UI is in
\* the middle of copying a third record into the arena.
C1_Witness ==
    /\ Len(readLog) >= 2
    /\ audioPc = "drain"
    /\ uiPc = "copy" /\ uiCopied = 1

\* C2 as stated: no interpreted message (a mapped control change, a program
\* change) is in the merged list handed to run.
C2_InterceptedConsumed ==
    audioPc = "run" =>
        \A k \in 1..Len(midiEvents) :
            ~IsIntercepted([time |-> midiEvents[k].frame, size |-> midiEvents[k].size,
                            buffer |-> midiEvents[k].data])

\* C2 amended: an interpreted message is stored in the merged list like any
\* other host event: the k-th host event scanned sits at the k-th place
\* after the UI notes, and the scan adds one event for it.
C2_InterceptedForwarded ==
    /\ NoteCount >= 0
    /\ \A k \in 1..hostIdx :
        IsIntercepted(hostBuf[k]) => midiEvents[NoteCount + k] = RawEvent(hostBuf[k])

\* C2 witness: run is about to be called after a mapped control change set
\* parameter 1 and its dirty flag, with the message itself in the list.
C2_Witness ==
    /\ audioPc = "run"
    /\ dspValue[1] = UnnormalizedValue(1, 64)
    /\ fParametersChanged[1]
    /\ \E k \in 1..Len(midiEvents) :
        midiEvents[k] = RawEvent(HostControlChange(7, 64))

\* C3: the merged list never holds more events than the array has slots, so
\* no event is stored at an index at or above the cap.
C3_MergedWithinCap == Len(midiEvents) <= MidiEventCap

\* C3 witness: run is about to be called with a full list that starts with a
\* UI note and ends with host events, the host having delivered more events
\* than were scanned.
C3_Witness ==
    /\ audioPc = "run"
    /\ Len(midiEvents) = MidiEventCap
    /\ NoteCount >= 1
    /\ hostIdx >= 1
    /\ Len(hostBuf) > eventCount

\* C7 as stated: a note left in the channel by a drain that stopped at the
\* cap is never read by a later cycle.
C7_NothingCarriedOver == leftBehind = 0 \/ Len(readLog) < leftBehind

\* C7 amended: host events beyond the cap are dropped (the host part of the
\* merged list is a prefix of this cycle's host buffer, at most eventCount
\* long), while notes are not: every note written is either read or still
\* published in the channel.
C7_HostDroppedNotesKept ==
    /\ hostIdx <= eventCount
    /\ eventCount <= Len(hostBuf)
    /\ NoteCount >= 0
    /\ NoteCount + eventCount <= MidiEventCap
    /\ \A k \in 1..hostIdx : midiEvents[NoteCount + k] = RawEvent(hostBuf[k])
    /\ NoteRecordSize * Len(readLog) + RingReadable = NoteRecordSize * Len(written)

\* C7 witness: a note that a drain left behind at the cap has been read by a
\* later cycle, which is about to call run having dropped host events.
C7_Witness ==
    /\ leftBehind > 0
    /\ Len(readLog) >= leftBehind
    /\ audioPc = "run"
    /\ Len(hostBuf) > eventCount

\* C8: a write that finds no room stages nothing, so the commit that follows
\* publishes nothing; every sendNote call is either rejected or accepted
\* whole, and the accepted records are exactly the records read followed by
\* the records published in the channel, in order.
C8_RejectedWriteLeavesChannel ==
    /\ (uiPc = "commit" /\ ~uiWriteOk) => wrtn = head
    /\ sent = Len(written) + rejected + (IF uiPc \in {"copy", "commit"} /\ uiWriteOk THEN 1 ELSE 0)
    /\ RingReadable % NoteRecordSize = 0
    /\ written = readLog \o Records(RingContents)

\* C8 witness: a write was rejected, and afterwards the records queued
\* before it have all been read.
C8_Witness ==
    /\ rejected >= 1
    /\ uiPc = "idle"
    /\ Len(written) >= 2
    /\ readLog = written

\* the number of notifications for parameter i in the last idle callback
EmitCount(i) == Cardinality({k \in 1..Len(idleEmits) : idleEmits[k][1] = i})

\* neither thread is inside a callback and no store is in flight
Quiescent == uiPc = "idle" /\ audioPc = "idle" /\ flagStore = NoStore

\* C4: no program change is lost: when both threads are at rest and no
\* program change is pending, the UI was told of the program the DSP core
\* holds.
C4_NoProgramChangeLost ==
    (Quiescent /\ fProgramChanged = NoProgram) => uiProgram = dspProgram

\* C5 as stated: a setParameterValue call of the UI leaves the DSP core's
\* parameter values alone (the change is only requested).
C5_UiOnlyRequests == [][uiRequest' # uiRequest => dspValue' = dspValue]_vars

\* C5 amended: a setParameterValue call of the UI writes the value into the
\* DSP core in the same step, on the UI thread, whatever the audio thread is
\* doing; nothing is queued for the audio thread and no dirty flag is set.
C5_UiWritesDirectly ==
    [][uiRequest' # uiRequest =>
        /\ dspValue' = [dspValue EXCEPT ![uiRequest'.index] = uiRequest'.value]
        /\ UNCHANGED <<trackVars, audioVars>>]_vars

\* C5 witness: in the middle of a host scan the trigger parameter holds the
\* non-default value of the UI's last call: the UI wrote it during the cycle
\* (the cycle's start had reset it).
C5_Witness ==
    /\ audioPc \in {"event", "ccmark"}
    /\ uiRequest = [index |-> 2, value |-> RangeMax(2) * ValueUnit]
    /\ dspValue[2] = uiRequest.value

C9_OneNotificationPerMark ==
    (uiPc = "idle" /\ ~disturbed) =>
        \A i \in Inputs :
            /\ EmitCount(i) = (IF flagAtBegin[i] THEN 1 ELSE 0)
            /\ flagAtBegin[i] => \E k \in 1..Len(idleEmits) : idleEmits[k] = <<i, dspValue[i]>>
            /\ ~fParametersChanged[i]

\* C9 witness: an undisturbed idle callback has ended that found parameter 1
\* dirty and notified it once with the value a control change wrote.
C9_Witness ==
    /\ uiPc = "idle"
    /\ ~disturbed
    /\ flagAtBegin[1]
    /\ idleEmits = << <<1, UnnormalizedValue(1, 127)>> >>

\* C10: the value a control change wrote is never lost: when both threads
\* are at rest and parameter 1 is not dirty, the UI was last told the value
\* the DSP core holds.
C10_ValueNeverLost ==
    (Quiescent /\ ~fParametersChanged[1]) => uiShown[1] = dspValue[1]

\* C11: during a cycle the DSP core holds the bridge's time position, which
\* follows the validity rule: markers that differ give frame 0 and no bar,
\* beat, tick; markers that agree give the snapshot's frame, and the bar,
\* beat, tick are valid exactly when the snapshot flags them, and then are
\* the snapshot's (the tick taken from tick_double when the host flags it).
C11_TimePositionRule ==
    audioPc # "idle" =>
        /\ dspTimePosition = fTimePosition
        /\ pos.unique_1 # pos.unique_2 =>
            dspTimePosition.frame = 0 /\ ~dspTimePosition.bbtValid
        /\ pos.unique_1 = pos.unique_2 =>
            /\ dspTimePosition.frame = pos.frame
            /\ dspTimePosition.bbtValid = ("JackPositionBBT" \in pos.valid)
            /\ dspTimePosition.bbtValid =>
                /\ dspTimePosition.bar = pos.bar
                /\ dspTimePosition.beat = pos.beat
                /\ dspTimePosition.tick =
                    (IF "JackTickDouble" \in pos.valid THEN pos.tick_double ELSE pos.tick)

\* C11 witness: run is about to be called in a cycle whose snapshot has
\* markers that differ and flags bar 2 as present; the DSP core was given
\* frame 0 and no valid bar, beat, tick (the bar it holds is an earlier
\* cycle's).
C11_Witness ==
    /\ audioPc = "run"
    /\ pos.unique_1 # pos.unique_2
    /\ "JackPositionBBT" \in pos.valid
    /\ pos.bar = 2
    /\ dspTimePosition.frame = 0
    /\ ~dspTimePosition.bbtValid
    /\ dspTimePosition.bar = 1

\* C12: an iteration of the scan that handles a control change with
\* controller c and value v writes the lowest input parameter mapped to c,
\* and no other, with min + (v/127)*(max - min), and goes on to mark it
\* dirty, which writes no value; when no input is mapped to c it writes no
\* parameter and marks none.
C12_ControlChangeWritesFirstInput ==
    [][/\ (audioPc = "event" /\ (audioPc' = "ccmark" \/ hostIdx' = hostIdx + 1)
            /\ hostBuf[hostIdx + 1].size = 3
            /\ hostBuf[hostIdx + 1].buffer[1] = StatusControlChange) =>
            LET c == hostBuf[hostIdx + 1].buffer[2]
                v == hostBuf[hostIdx + 1].buffer[3]
                mapped == {i \in Inputs : ParameterMidiCC(i) = c}
            IN IF mapped = {}
               THEN /\ dspValue' = dspValue
                    /\ fParametersChanged' = fParametersChanged
                    /\ audioPc' # "ccmark"
               ELSE \E j \in mapped :
                    /\ \A i \in mapped : j <= i
                    /\ dspValue' = [dspValue EXCEPT ![j] =
                            RangeMin(j) * ValueUnit + v * (RangeMax(j) - RangeMin(j))]
                    /\ audioPc' = "ccmark"
                    /\ audioMark' = j
       /\ audioPc = "ccmark" =>
            /\ dspValue' = dspValue
            /\ audioPc' # audioPc =>
                fParametersChanged' = [fParametersChanged EXCEPT ![audioMark] = TRUE]
      ]_vars

\* C12 witness: a control change with controller 7 and value 64 has been
\* handled: parameter 1 holds 10 * 64/127 and is dirty, while the output
\* parameter 0 and parameter 2, mapped to the same controller, are neither
\* written nor dirty.
C12_Witness ==
    /\ audioPc \in {"event", "run"}
    /\ hostIdx >= 1
    /\ hostBuf[hostIdx] = HostControlChange(7, 64)
    /\ dspValue[1] = 10 * 64
    /\ fParametersChanged[1]
    /\ dspValue[0] = 0 /\ dspValue[2] = RangeDef(2)
    /\ ~fParametersChanged[0] /\ ~fParametersChanged[2]

\* C13: once the host's shutdown callback has fired, the bridge reaches the
\* end of its destructor (the DSP core deactivated) with no signal needed.
C13_ShutdownLeadsToDeactivation == (fClient = "null") ~> (mainPc = "deactivated")

\* C14: once the drain of a cycle has ended, if fewer notes than the cap
\* were queued when the cycle began, every record whose sendNote had
\* completed by then has been read in this cycle and is in this cycle's
\* merged list, in order.
C14_CommittedNotesReadThisCycle ==
    audioPc \in {"scan", "event", "ccmark", "pcmark", "run"} =>
        LET readAtBegin == Len(readLog) - NoteCount
            queued == writtenAtBegin - readAtBegin
        IN queued < MidiEventCap =>
            /\ queued >= 0
            /\ Len(readLog) >= writtenAtBegin
            /\ \A k \in 1..queued : midiEvents[k] = NoteEvent(written[readAtBegin + k])

\* C14 witness: run is about to be called with the one note that was queued
\* when the cycle began first in the merged list, the UI having completed
\* another sendNote during the cycle.
C14_Witness ==
    /\ audioPc = "run"
    /\ writtenAtBegin - (Len(readLog) - NoteCount) = 1
    /\ midiEvents[1] = NoteEvent(written[writtenAtBegin])
    /\ Len(written) > writtenAtBegin

\* the steps of the audio thread inside a cycle
CycleStep == DrainNote \/ HostScanBegin \/ HostEvent \/ HostEventMark \/ FetchFails \/ Run({0})

\* a bound on the steps the cycle still has to take: the drain has at most
\* as many iterations left as the list has free slots, the scan at most
\* eventCount - hostIdx events of at most two steps, then run
CycleWork ==
    CASE audioPc = "idle" -> 0
      [] audioPc = "run" -> 1
      [] audioPc \in {"ccmark", "pcmark"} -> 2 * (eventCount - hostIdx) + 1
      [] audioPc = "event" -> 2 * (eventCount - hostIdx) + 2
      [] audioPc = "scan" -> 2 * MidiEventCap + 3
      [] audioPc = "drain" -> 2 * MidiEventCap + 4 + (MidiEventCap - Len(midiEvents))

\* C15: a cycle that has begun can always take its next step, whatever the
\* UI thread is doing (it waits for nothing), and every step it takes
\* lowers a bound on the steps left, which is at most 3 * cap + 4 and
\* reaches 0 only when run has returned: the cycle ends.
C15_CycleEndsWithoutWaiting ==
    [][/\ audioPc # "idle" => ENABLED CycleStep
       /\ (audioPc # "idle" /\ audioVars' # audioVars) =>
            /\ CycleWork' < CycleWork
            /\ CycleWork' >= 0
            /\ CycleWork <= 3 * MidiEventCap + 4
      ]_vars

\* C15 witness: the drain has stopped at the cap while the UI, which has
\* queued more notes than the cap, is in the middle of writing another.
C15_Witness ==
    /\ audioPc = "scan"
    /\ Len(midiEvents) = MidiEventCap
    /\ uiPc = "copy"
    /\ sent > MidiEventCap

\* C16: no operation of the UI is called from a thread of the host; of the
\* calls the bridge makes outside the idle callback, this is fUI.quit.
C16_UiCalledFromUiThreadOnly == "host" \notin uiQuit

\* frames is in non-decreasing order
NonDecreasing(frames) == \A k \in 1..(Len(frames) - 1) : frames[k] <= frames[k + 1]

StepsDoneAt(pc) ==
    LET order == <<"setTimePosition", "updateParameterTriggers", "clearMidiOut",
                   "drainNotes", "scanHost", "run", "releaseMidiOut">>
    IN CASE pc = "drain" -> {SubSeq(order, 1, 3)}
         [] pc \in {"scan", "event", "ccmark", "pcmark"} -> {SubSeq(order, 1, 4)}
         [] pc = "run" -> {SubSeq(order, 1, 5)}
         [] pc = "idle" -> {<<>>, order}

ScannedAppended ==
    /\ hostIdx <= Len(midiEvents)
    /\ \A k \in 1..hostIdx : midiEvents[NoteCount + k] = RawEvent(hostBuf[k])

\* C19: when the fetch of host event k fails, the scan goes to run leaving
\* the list, the DSP core, the flags and the pending program as they are;
\* the events before k are all in the list and the side effect of the last
\* of them is in place; from there the audio thread's one step is run,
\* which ends the cycle, so event k and the events after it are never
\* handled.
C19_FailedFetchEndsScan ==
    [][/\ ScannedAppended /\ ScannedAppended'
       /\ (audioPc = "event" /\ audioPc' = "run" /\ hostIdx' = hostIdx) =>
            /\ hostIdx < eventCount
            /\ UNCHANGED <<midiEvents, dspVars, trackVars>>
            /\ (hostIdx >= 1 /\ IsControlChange(hostBuf[hostIdx])
                    /\ hostBuf[hostIdx].buffer[2] = ParameterMidiCC(1)) =>
                /\ dspValue[1] = 10 * hostBuf[hostIdx].buffer[3]
                /\ fParametersChanged[1]
            /\ (hostIdx >= 1 /\ IsProgramChange(hostBuf[hostIdx])
                    /\ hostBuf[hostIdx].buffer[2] < ProgramCount) =>
                /\ dspProgram = hostBuf[hostIdx].buffer[2]
                /\ fProgramChanged = hostBuf[hostIdx].buffer[2]
       /\ audioPc = "run" =>
            \/ /\ audioPc' = "run"
               /\ UNCHANGED <<midiEvents, hostIdx, dspVars, trackVars>>
            \/ /\ audioPc' = "idle"
               /\ steps' = steps \o <<"run", "releaseMidiOut">>
               /\ UNCHANGED <<dspProgram, trackVars>>
      ]_vars

\* C19 witness: run is about to be called after the fetch of the second of
\* two host events failed: the control change before it was applied and is
\* in the list, the program change 1 that could not be fetched loaded no
\* program and is not in the list.
C19_Witness ==
    /\ audioPc = "run"
    /\ hostIdx = 1 /\ eventCount = 2
    /\ hostBuf = <<HostControlChange(7, 64), HostProgramChange(1)>>
    /\ midiEvents = <<RawEvent(HostControlChange(7, 64))>>
    /\ dspValue[1] = 10 * 64 /\ fParametersChanged[1]
    /\ dspProgram = 0 /\ fProgramChanged = NoProgram


\* C20: the iteration that handles a program change p (status 0xC0, 2
\* bytes) loads program p into the DSP core and then stores p as the pending
\* program exactly when p < programCount; an out-of-range p leaves the
\* selected program, the parameter values, the dirty flags and the pending
\* program as they are. Nothing else in the cycle selects a program or
\* stores a pending one.
C20_ProgramChangeInRangeOnly ==
    [][LET jevent == hostBuf[hostIdx + 1]
           p == jevent.buffer[2]
           handled == /\ audioPc = "event" /\ hostIdx < eventCount
                      /\ (audioPc' # "event" \/ hostIdx' # hostIdx)
                      /\ ~(audioPc' = "run" /\ hostIdx' = hostIdx)
       IN
       /\ (handled /\ IsProgramChange(jevent)) =>
            IF p < ProgramCount
            THEN /\ audioPc' = "pcmark"
                 /\ dspProgram' = p
                 /\ dspValue' = LoadProgram(p, dspValue)
                 /\ UNCHANGED trackVars
            ELSE /\ audioPc' # "pcmark"
                 /\ hostIdx' = hostIdx + 1
                 /\ UNCHANGED <<dspVars, trackVars>>
       /\ (audioPc = "pcmark" /\ audioPc' # "pcmark") =>
            /\ IsProgramChange(jevent) /\ p < ProgramCount
            /\ dspProgram = p
            /\ fProgramChanged' = p
            /\ UNCHANGED <<dspVars, fParametersChanged>>
       /\ dspProgram' # dspProgram =>
            handled /\ IsProgramChange(jevent) /\ p < ProgramCount
       /\ (fProgramChanged' # fProgramChanged /\ fProgramChanged' # NoProgram) =>
            audioPc = "pcmark"
      ]_vars

\* C20 witness: a cycle with the program change 1 followed by the program
\* change 5 has handled both: program 1 is selected and pending, and both
\* raw messages are in the list.
C20_Witness ==
    /\ audioPc = "run"
    /\ hostBuf = <<HostProgramChange(1), HostProgramChange(5)>>
    /\ hostIdx = 2
    /\ midiEvents = <<RawEvent(HostProgramChange(1)), RawEvent(HostProgramChange(5))>>
    /\ dspProgram = 1 /\ fProgramChanged = 1
    /\ \A i \in Inputs : dspValue[i] = ProgramValue(1, i)


\* the idle callback compares an output parameter with the cache
OutputVisit ==
    /\ uiPc = "param" /\ uiIdx < ParameterCount /\ IsParameterOutput(uiIdx)
    /\ uiIdx' = uiIdx + 1

\* C21 as stated: after the idle callback has visited an output parameter
\* the cache equals the value it read.
C21_CacheEqualsValueRead ==
    \A i \in Outputs : valueRead[i] # NoProgram => fLastOutputValues[i] = valueRead[i]

\* C21 (amended): the idle callback notifies an output parameter exactly
\* when its value is at least the tolerance away from the cache, and then
\* stores the value in the cache; nothing else writes the cache. So the
\* cache is within the tolerance of the value last read, a visit that reads
\* the value of the visit before notifies nothing, and the notifications of
\* one callback are in increasing index order.
C21_OutputsPolledWithTolerance ==
    [][/\ OutputVisit =>
            LET value == dspValue[uiIdx] IN
            /\ IF d_isEqual(fLastOutputValues[uiIdx], value)
               THEN UNCHANGED <<fLastOutputValues, idleEmits, uiShown>>
               ELSE /\ fLastOutputValues' = [fLastOutputValues EXCEPT ![uiIdx] = value]
                    /\ idleEmits' = Append(idleEmits, <<uiIdx, value>>)
            /\ valueRead[uiIdx] = value => idleEmits' = idleEmits
       /\ fLastOutputValues' # fLastOutputValues => OutputVisit
       /\ \A i \in Outputs :
            valueRead'[i] # NoProgram => d_isEqual(fLastOutputValues'[i], valueRead'[i])
       /\ \A k \in 1..(Len(idleEmits') - 1) : idleEmits'[k][1] < idleEmits'[k + 1][1]
      ]_vars

\* C21 witness: one idle callback has notified the output parameter, whose
\* value was far from the cache, and then the input parameter a control
\* change had marked; the cache holds the output's value.
C21_Witness ==
    /\ uiPc = "param" /\ uiIdx = ParameterCount
    /\ idleEmits = << <<0, 2 * ValueUnit>>, <<1, UnnormalizedValue(1, 64)>> >>
    /\ fLastOutputValues[0] = 2 * ValueUnit
    /\ valueRead[0] = 2 * ValueUnit


\* C22: once a signal has set gCloseSignalReceived, no idle callback goes
\* past its first test: the one that finds the flag set calls fUI.quit and
\* changes nothing else, so it notifies no program and no parameter. The
\* audio thread does not depend on the flag: while the client is there a
\* cycle can begin, and a cycle that has begun can take its next step.
\* From there the bridge reaches the end of its destructor, the DSP core
\* deactivated, the UI having been told to quit when the build has one.
C22_CloseSignalQuitsTheUi ==
    /\ [][/\ (gCloseSignalReceived /\ uiPc = "idle") => uiPc' = "idle"
          /\ "ui" \in uiQuit' \ uiQuit =>
                /\ gCloseSignalReceived
                /\ UNCHANGED <<notLifeVars, mainPc, fClient>>
          /\ (gCloseSignalReceived /\ mainPc = "running" /\ fClient = "client"
                /\ audioPc = "idle") => ENABLED LifeCycle
          /\ (gCloseSignalReceived /\ audioPc # "idle") => ENABLED AudioThread
          /\ (audioVars' # audioVars \/ cycleVars' # cycleVars) =>
                gCloseSignalReceived' = gCloseSignalReceived
         ]_vars
    /\ gCloseSignalReceived ~> (mainPc = "deactivated" /\ (hasUI => uiQuit # {}))

\* C22 witness: after a signal the idle callback has told the UI to quit,
\* the loop has ended and the destructor has run, while the host had gone
\* on with a cycle that applied a control change after the signal.
C22_Witness ==
    /\ hasUI
    /\ gCloseSignalReceived
    /\ uiQuit = {"ui"}
    /\ mainPc = "deactivated"
    /\ fClient = "client"
    /\ idleEmits = <<>>
    /\ fParametersChanged[1]


\* C23: once the destructor has released the tracker and deactivated the
\* DSP core, no cycle is in progress (none begins after the run loop has
\* ended), whether the client was still there or the host had shut down.
C23_NoCycleOverlapsTeardown == mainPc = "deactivated" => audioPc = "idle"


\* C24: fPortMidiOutBuffer is set exactly while a cycle is in progress, from
\* the fetch and clearing of the buffer at its start to the return of run.
\* The start of a cycle empties the buffer and only writeMidi adds to it,
\* so what it holds was written in this cycle. A writeMidi call
\* with no buffer set returns false and writes nothing; with the buffer set
\* it appends its event when the write succeeds.
C24_MidiOutOpenInsideCycleOnly ==
    [][/\ (fPortMidiOutBuffer # "null") <=> (audioPc # "idle")
       /\ (audioPc = "idle" /\ audioPc' # "idle") => midiOut' = <<>>
       /\ Len(writeLog') # Len(writeLog) =>
            /\ Len(writeLog') = Len(writeLog) + 1
            /\ fPortMidiOutBuffer' = fPortMidiOutBuffer
            /\ IF fPortMidiOutBuffer = "null" \/ ~writeLog'[Len(writeLog')]
               THEN midiOut' = midiOut
               ELSE /\ Len(midiOut') = Len(midiOut) + 1
                    /\ SubSeq(midiOut', 1, Len(midiOut)) = midiOut
            /\ fPortMidiOutBuffer = "null" => ~writeLog'[Len(writeLog')]
       /\ (midiOut' # midiOut /\ midiOut' # <<>>) => Len(writeLog') # Len(writeLog)
      ]_vars

\* C24 witness: writeMidi was called before the first cycle, inside the
\* cycle and after it; only the call inside the cycle returned true, and
\* the buffer holds its event alone.
C24_Witness ==
    /\ audioPc = "idle"
    /\ fPortMidiOutBuffer = "null"
    /\ steps = CycleSteps
    /\ writeLog = <<FALSE, TRUE, FALSE>>
    /\ Len(midiOut) = 1


\* C25: a dirty flag goes up only in the second store of the control change
\* handling or of requestParameterValueChange, for the parameter it wrote.
\* The start of a cycle, with its trigger reset, changes no flag, no pending
\* program, no cache and tells the UI nothing; so does the UI's
\* setParameterValue, which writes the one value it was given. An input is
\* notified only after its flag was found set, so the trigger parameter,
\* which no control change and no request writes here, is never notified
\* when it returns to its default.
C25_TrackerLeftUntouched ==
    [][/\ \A i \in Params :
            (fParametersChanged'[i] /\ ~fParametersChanged[i]) =>
                /\ audioPc \in {"ccmark", "reqmark"}
                /\ audioPc' # audioPc
                /\ i = audioMark
       /\ (audioPc = "idle" /\ audioPc' # "idle") =>
            /\ dspValue' = UpdateParameterTriggers(dspValue)
            /\ \A i \in Params : dspValue'[i] # dspValue[i] =>
                    IsParameterTrigger(i) /\ dspValue'[i] = RangeDef(i)
            /\ UNCHANGED <<trackVars, shownVars, idleEmits, dspProgram>>
       /\ (audioPc' = audioPc /\ dspValue' # dspValue) =>
            /\ dspValue' = [dspValue EXCEPT ![uiRequest'.index] = uiRequest'.value]
            /\ UNCHANGED <<trackVars, shownVars, idleEmits, dspProgram>>
       /\ idleEmits' # idleEmits /\ idleEmits' # <<>> =>
            \/ uiPc = "notify" /\ ~IsParameterOutput(uiIdx)
            \/ uiPc = "param" /\ IsParameterOutput(uiIdx)
       /\ \A k \in 1..Len(idleEmits') : ~IsParameterTrigger(idleEmits'[k][1])
       /\ \A i \in Params : IsParameterTrigger(i) => uiShown'[i] = uiShown[i]
      ]_vars

\* C25 witness: the UI has set the trigger parameter to its maximum, a cycle
\* has returned it to its default, and an idle callback that began after
\* that has visited every parameter: no flag is set, nothing was notified.
C25_Witness ==
    /\ uiRequest = [index |-> 2, value |-> RangeMax(2) * ValueUnit]
    /\ dspValue[2] = RangeDef(2)
    /\ uiPc = "param" /\ uiIdx = ParameterCount
    /\ ~disturbed
    /\ idleEmits = <<>>
    /\ \A i \in Params : ~fParametersChanged[i]
    /\ audioPc = "idle" /\ steps = CycleSteps

====
